---- MODULE Spec2Model ----
(***************************************************************************)
(* Model of steel/base.py: the name-aware class namespace, the structure   *)
(* metaclasses that build the ordered field map, and the dump/load engine  *)
(* of the mutable (Structure) and tuple (StructureTuple) realizations.     *)
(* Field objects are external to base.py; they are modelled by the         *)
(* capability contract base.py calls (set_name, attach_to_class,           *)
(* read_value, write_value, has_default, default).                         *)
(***************************************************************************)
EXTENDS Integers, Sequences, FiniteSets, TLC

\* ---------------------------------------------------------------- bounds
MaxInserts == 3     \* namespace insertions over the whole run
MaxClasses == 2     \* user-declared schema types over the whole run
ByteBase == 2       \* number of distinct byte values of the streams

\* ------------------------------------------------------- object universe
NameOrder == <<"a", "b", "c">>
Names == {NameOrder[i] : i \in 1..Len(NameOrder)}
FieldObjs == {"f1", "f2"}
PlainObj == "o"          \* object() of test_ignore_object: no hooks
ErrorObject == "e"       \* ErrorObject of test_errors: set_name raises TypeError
Objs == FieldObjs \cup {PlainObj, ErrorObject}
NoName == "-"
None == -1            \* Python's None, the empty sentinel of a tuple slot
Values == {0, 1, None}

\* hasattr(obj, 'set_name')
HasSetName(obj) == obj \in FieldObjs \cup {ErrorObject}

\* hasattr(attr, 'attach_to_class')
HasAttach(obj) == obj \in FieldObjs

\* declared byte size of a field
FieldSize(f) == IF f = "f1" THEN 1 ELSE 2

\* field.has_default()
FieldHasDefault(f) == f = "f2"

\* field.default
FieldDefault(f) == 1

VARIABLES
    pc,       \* "idle"; "body" while a class statement is being evaluated;
              \* "raised" when an insertion of it has raised; "called" when an
              \* instance-level call has just returned
    cur,      \* index of the base class of the class statement in progress
    ns,       \* its NameAwareOrderedDict: sequence of [name, obj]
    decl,     \* history: the insertions of this class statement, in time order
    hooks,    \* history: the set_name calls of this class statement, in time order
    nins,     \* number of insertions made so far, over all class statements
    fname,    \* the name each object was last told by set_name
    classes,  \* the schema types that exist, in creation order
    maps,     \* the heap of _fields maps; classes[k].fref indexes it
    err,      \* the error that ended the latest class statement, or "none"
    last      \* the latest instance-level operation and what it returned

vars == <<pc, cur, ns, decl, hooks, nins, fname, classes, maps, err, last>>

\* ------------------------------------------------------ ordered mappings
RECURSIVE IndexOf(_, _, _)
IndexOf(seq, key, i) ==
    IF i > Len(seq) THEN 0
    ELSE IF seq[i].name = key THEN i ELSE IndexOf(seq, key, i + 1)

\* OrderedDict.__setitem__: a new key goes last, a known key keeps its place
ODSet(seq, key, val) ==
    LET i == IndexOf(seq, key, 1) IN
    IF i = 0 THEN Append(seq, [name |-> key, obj |-> val])
    ELSE [seq EXCEPT ![i] = [name |-> key, obj |-> val]]

Keys(seq) == [i \in 1..Len(seq) |-> seq[i].name]

HasKey(seq, key) == IndexOf(seq, key, 1) # 0

Lookup(seq, key) == seq[IndexOf(seq, key, 1)].obj

\* ------------------------------------------------------------ declaration
Result(op, k, arg, error, log, out, returned, obj) ==
    [op |-> op, cls |-> k, arg |-> arg, error |-> error, log |-> log,
     out |-> out, returned |-> returned, obj |-> obj]

NoOp == Result("none", 0, <<>>, "none", <<>>, <<>>, <<>>, <<>>)

Init ==
    /\ pc = "idle"
    /\ cur = 0
    /\ ns = <<>>
    /\ decl = <<>>
    /\ hooks = <<>>
    /\ nins = 0
    /\ fname = [o \in Objs |-> NoName]
    \* the bodies of Structure and StructureTuple hold no object with a hook
    /\ classes = << [kind |-> "Structure", parent |-> 0, attrs |-> <<>>,
                     fref |-> 1, nt |-> <<>>],
                    [kind |-> "StructureTuple", parent |-> 0, attrs |-> <<>>,
                     fref |-> 2, nt |-> <<>>] >>
    /\ maps = << <<>>, <<>> >>
    /\ err = "none"
    /\ last = NoOp

\* StructureMetaclass.__prepare__: the class statement opens with a fresh namespace
Prepare(parent) ==
    /\ pc = "idle"
    /\ Len(classes) < MaxClasses + 2
    /\ pc' = "body"
    /\ cur' = parent
    /\ ns' = <<>>
    /\ decl' = <<>>
    /\ hooks' = <<>>
    /\ err' = "none"
    /\ UNCHANGED <<nins, fname, classes, maps, last>>

\* obj.set_name(name): the error it raises, "none" when it returns
SetNameError(obj) == IF obj = ErrorObject THEN "TypeError" ELSE "none"

\* __setitem__ with the hook's error swallowed
SetItemSwallow(d, h, fn, name, obj) ==
    LET stored == ODSet(d, name, obj) IN
    IF HasSetName(obj)
    THEN [ns    |-> stored,
          hooks |-> Append(h, [obj |-> obj, name |-> name]),
          fname |-> IF SetNameError(obj) = "none"
                    THEN [fn EXCEPT ![obj] = name] ELSE fn,
          err   |-> "none"]
    ELSE [ns |-> stored, hooks |-> h, fname |-> fn, err |-> "none"]

\* NameAwareOrderedDict.__setitem__: store, then tell the object its name
SetItem(d, h, fn, name, obj) ==
    LET stored == ODSet(d, name, obj) IN
    IF HasSetName(obj)
    THEN [ns    |-> stored,
          hooks |-> Append(h, [obj |-> obj, name |-> name]),
          fname |-> IF SetNameError(obj) = "none"
                    THEN [fn EXCEPT ![obj] = name] ELSE fn,
          err   |-> SetNameError(obj)]
    ELSE [ns |-> stored, hooks |-> h, fname |-> fn, err |-> "none"]

\* the identifiers a class body may bind next: one it has bound already, or
\* the first unused one (identifiers are numbered in order of first use)
Bindable(d) ==
    {d[i].name : i \in 1..Len(d)} \cup
    {NameOrder[i] : i \in {j \in 1..Len(NameOrder) : j = Len(d) + 1}}

\* one assignment of the class body; an error ends the class statement
Insert(name, obj) ==
    /\ pc = "body"
    /\ nins < MaxInserts
    /\ name \in Bindable(ns)
    /\ LET r == SetItem(ns, hooks, fname, name, obj) IN
        /\ ns' = r.ns
        /\ hooks' = r.hooks
        /\ fname' = r.fname
        /\ err' = r.err
        /\ pc' = IF r.err = "none" THEN "body" ELSE "raised"
    /\ decl' = Append(decl, [name |-> name, obj |-> obj])
    /\ nins' = nins + 1
    /\ UNCHANGED <<cur, classes, maps, last>>

\* Field.attach_to_class(cls): the field registers itself under its name
AttachToClass(m, f, fn) == ODSet(m, fn[f], f)

\* the loop of __init__ walking the attributes from the last to the first
RECURSIVE AttachAllReversed(_, _, _, _)
AttachAllReversed(m, attrs, fn, i) ==
    IF i > Len(attrs) THEN m
    ELSE LET a == attrs[Len(attrs) + 1 - i] IN
         AttachAllReversed(IF HasAttach(a.obj) THEN AttachToClass(m, a.obj, fn) ELSE m,
                           attrs, fn, i + 1)

\* the loop of StructureMetaclass.__init__ over attrs.items(), from item i on
RECURSIVE AttachAll(_, _, _, _)
AttachAll(m, attrs, fn, i) ==
    IF i > Len(attrs) THEN m
    ELSE AttachAll(IF HasAttach(attrs[i].obj)
                   THEN AttachToClass(m, attrs[i].obj, fn) ELSE m,
                   attrs, fn, i + 1)

\* the new type going on with the map it finds on its base
SharedFieldsRef(heap, parentRef) == parentRef

\* cls._fields = collections.OrderedDict(): where the new type's map lives
NewFieldsRef(heap, parentRef) == Len(heap) + 1

\* StructureMetaclass.__init__: the heap of maps after building the type
MetaInit(heap, parentRef, attrs, fn) ==
    LET ref == NewFieldsRef(heap, parentRef)
        h1 == IF ref > Len(heap) THEN Append(heap, <<>>) ELSE heap
    IN [h1 EXCEPT ![ref] = AttachAll(h1[ref], attrs, fn, 1)]

\* StructureTupleMetaclass.__init__: the field names of cls._namedtuple
NamedTupleFields(kind, m) == IF kind = "StructureTuple" THEN Keys(m) ELSE <<>>

\* StructureMetaclass.__new__: the namespace becomes the type's attributes
TypeNew(attrs) == attrs

\* the class statement completes: the metaclass builds the type
EndBody ==
    /\ pc = "body"
    /\ LET kind == classes[cur].kind
           ref == NewFieldsRef(maps, classes[cur].fref)
           heap == MetaInit(maps, classes[cur].fref, ns, fname)
       IN /\ maps' = heap
          /\ classes' = Append(classes,
                [kind |-> kind, parent |-> cur, attrs |-> TypeNew(ns),
                 fref |-> ref, nt |-> NamedTupleFields(kind, heap[ref])])
    /\ pc' = "idle"
    /\ cur' = 0
    /\ ns' = <<>>
    /\ decl' = <<>>
    /\ hooks' = <<>>
    /\ UNCHANGED <<nins, fname, err, last>>

\* the error leaves the class statement: its namespace is dropped, no type is made
Abandon ==
    /\ pc = "raised"
    /\ pc' = "idle"
    /\ cur' = 0
    /\ ns' = <<>>
    /\ decl' = <<>>
    /\ hooks' = <<>>
    /\ UNCHANGED <<nins, fname, classes, maps, err, last>>

\* ------------------------------------------------------------ field codecs
RECURSIVE Pow(_, _)
Pow(b, n) == IF n = 0 THEN 1 ELSE b * Pow(b, n - 1)

\* big-endian digits of v in n bytes
RECURSIVE Encode(_, _)
Encode(v, n) ==
    IF n = 0 THEN <<>>
    ELSE Append(Encode(v \div ByteBase, n - 1), v % ByteBase)

RECURSIVE Decode(_, _)
Decode(bytes, n) ==
    IF n = 0 THEN 0
    ELSE Decode(bytes, n - 1) * ByteBase + bytes[n]

\* field.write_value(fp, value) and field.write_value(fp): bytes written, or an error
WriteValue(f, mode, value) ==
    LET v == IF mode = "novalue" THEN FieldDefault(f) ELSE value IN
    IF mode = "novalue" /\ ~FieldHasDefault(f)
    THEN [error |-> "ValueError", bytes |-> <<>>]
    ELSE IF v = None \/ v >= Pow(ByteBase, FieldSize(f))
    THEN [error |-> "TypeError", bytes |-> <<>>]
    ELSE [error |-> "none", bytes |-> Encode(v, FieldSize(f))]

\* field.read_value(fp) with the stream at pos: the value decoded, or an error
ReadValue(f, stream, pos) ==
    IF pos + FieldSize(f) > Len(stream)
    THEN [error |-> "EOFError", value |-> None, pos |-> pos]
    ELSE [error |-> "none",
          value |-> Decode(SubSeq(stream, pos + 1, pos + FieldSize(f)), FieldSize(f)),
          pos |-> pos + FieldSize(f)]

\* one codec call: the field, how it was called, the value passed or read, the outcome
Call(n, f, mode, v, e) ==
    [name |-> n, field |-> f, mode |-> mode, value |-> v, error |-> e]

\* ------------------------------------------------------------ instances
Fields(k) == maps[classes[k].fref]

FieldNames(k) == {Fields(k)[i].name : i \in 1..Len(Fields(k))}

\* StructureBase.__init__: every keyword becomes an instance attribute
StructureInit(kwargs) == kwargs

\* StructureTuple.__new__: one slot per field of cls._fields, handed to cls._namedtuple
TupleNew(k, kwargs) ==
    LET m == Fields(k)
        data == [i \in 1..Len(m) |->
                    IF m[i].name \in DOMAIN kwargs THEN kwargs[m[i].name] ELSE None]
    IN IF Len(data) # Len(classes[k].nt)
       THEN [error |-> "TypeError", obj |-> <<>>]
       ELSE [error |-> "none",
             obj |-> [i \in 1..Len(data) |->
                        [name |-> classes[k].nt[i], obj |-> data[i]]]]

\* cls(**kwargs)
New(k, kwargs) ==
    IF classes[k].kind = "StructureTuple" THEN TupleNew(k, kwargs)
    ELSE [error |-> "none", obj |-> StructureInit(kwargs)]

\* ------------------------------------------------------------ dump
\* dump taking a falsy attribute for a missing one
RECURSIVE StructureDumpTruthy(_, _, _, _, _)
StructureDumpTruthy(m, self, i, log, out) ==
    IF i > Len(m) THEN [error |-> "none", log |-> log, out |-> out]
    ELSE LET n == m[i].name
             f == m[i].obj
             set == n \in DOMAIN self /\ self[n] \notin {0, None}
             mode == IF set THEN "value" ELSE "novalue"
             v == IF set THEN self[n] ELSE None
             w == WriteValue(f, mode, v)
             log1 == Append(log, Call(n, f, mode, v, w.error))
         IN IF w.error # "none"
            THEN [error |-> w.error, log |-> log1, out |-> out]
            ELSE StructureDumpTruthy(m, self, i + 1, log1, out \o w.bytes)

\* StructureBase.dump, from field i on
RECURSIVE StructureDump(_, _, _, _, _)
StructureDump(m, self, i, log, out) ==
    IF i > Len(m) THEN [error |-> "none", log |-> log, out |-> out]
    ELSE LET n == m[i].name
             f == m[i].obj
             mode == IF n \in DOMAIN self THEN "value" ELSE "novalue"
             v == IF n \in DOMAIN self THEN self[n] ELSE None
             w == WriteValue(f, mode, v)
             log1 == Append(log, Call(n, f, mode, v, w.error))
         IN IF w.error # "none"
            THEN [error |-> w.error, log |-> log1, out |-> out]
            ELSE StructureDump(m, self, i + 1, log1, out \o w.bytes)

\* tuple dump writing an empty slot the way the mutable dump writes a missing value
RECURSIVE TupleDumpFallback(_, _, _, _, _)
TupleDumpFallback(m, obj, i, log, out) ==
    IF i > Len(m) THEN [error |-> "none", log |-> log, out |-> out]
    ELSE LET n == m[i].name
             f == m[i].obj
         IN IF ~HasKey(obj, n)
            THEN [error |-> "AttributeError", log |-> log, out |-> out]
            ELSE LET v == Lookup(obj, n)
                     mode == IF v = None THEN "novalue" ELSE "value"
                     w == WriteValue(f, mode, v)
                     log1 == Append(log, Call(n, f, mode, v, w.error))
                 IN IF w.error # "none"
                    THEN [error |-> w.error, log |-> log1, out |-> out]
                    ELSE TupleDumpFallback(m, obj, i + 1, log1, out \o w.bytes)

\* StructureTuple.dump, from field i on
RECURSIVE TupleDump(_, _, _, _, _)
TupleDump(m, obj, i, log, out) ==
    IF i > Len(m) THEN [error |-> "none", log |-> log, out |-> out]
    ELSE LET n == m[i].name
             f == m[i].obj
         IN IF ~HasKey(obj, n)
            THEN [error |-> "AttributeError", log |-> log, out |-> out]
            ELSE LET v == Lookup(obj, n)
                     w == WriteValue(f, "value", v)
                     log1 == Append(log, Call(n, f, "value", v, w.error))
                 IN IF w.error # "none"
                    THEN [error |-> w.error, log |-> log1, out |-> out]
                    ELSE TupleDump(m, obj, i + 1, log1, out \o w.bytes)

\* cls.dump(obj, fp) on an empty stream
DumpOp(k, obj) ==
    IF classes[k].kind = "StructureTuple"
    THEN TupleDump(Fields(k), obj, 1, <<>>, <<>>)
    ELSE StructureDump(Fields(k), obj, 1, <<>>, <<>>)

\* StructureBase.dumps: the buffer's bytes, returned only when dump returns
DumpsOp(k, obj) ==
    LET d == DumpOp(k, obj) IN
    [error |-> d.error, log |-> d.log, out |-> d.out,
     returned |-> IF d.error = "none" THEN d.out ELSE <<>>]

\* ------------------------------------------------------------ load
\* setattr(obj, name, value): a namedtuple's slots cannot be assigned
SetAttr(kind, obj, n, v) ==
    IF kind = "StructureTuple"
    THEN [error |-> "AttributeError", obj |-> obj]
    ELSE [error |-> "none",
          obj |-> [x \in DOMAIN obj \cup {n} |-> IF x = n THEN v ELSE obj[x]]]

\* the loop of load reading every field from where the stream started
RECURSIVE LoadLoopRewind(_, _, _, _, _, _, _)
LoadLoopRewind(kind, m, obj, stream, pos, i, log) ==
    IF i > Len(m) THEN [error |-> "none", log |-> log, obj |-> obj]
    ELSE LET n == m[i].name
             f == m[i].obj
             r == ReadValue(f, stream, pos)
             log1 == Append(log, Call(n, f, "read", r.value, r.error))
         IN IF r.error # "none"
            THEN [error |-> r.error, log |-> log1, obj |-> <<>>]
            ELSE LET s == SetAttr(kind, obj, n, r.value) IN
                 IF s.error # "none"
                 THEN [error |-> s.error, log |-> log1, obj |-> <<>>]
                 ELSE LoadLoopRewind(kind, m, s.obj, stream, pos, i + 1, log1)

\* the loop of StructureBase.load, from field i on
RECURSIVE LoadLoop(_, _, _, _, _, _, _)
LoadLoop(kind, m, obj, stream, pos, i, log) ==
    IF i > Len(m) THEN [error |-> "none", log |-> log, obj |-> obj]
    ELSE LET n == m[i].name
             f == m[i].obj
             r == ReadValue(f, stream, pos)
             log1 == Append(log, Call(n, f, "read", r.value, r.error))
         IN IF r.error # "none"
            THEN [error |-> r.error, log |-> log1, obj |-> <<>>]
            ELSE LET s == SetAttr(kind, obj, n, r.value) IN
                 IF s.error # "none"
                 THEN [error |-> s.error, log |-> log1, obj |-> <<>>]
                 ELSE LoadLoop(kind, m, s.obj, stream, r.pos, i + 1, log1)

\* StructureBase.load / loads
LoadOp(k, stream) ==
    LET c == New(k, <<>>) IN
    IF c.error # "none" THEN [error |-> c.error, log |-> <<>>, obj |-> <<>>]
    ELSE LoadLoop(classes[k].kind, Fields(k), c.obj, stream, 0, 1, <<>>)

\* ------------------------------------------------------------ defaults
\* StructureBase.has_default
HasDefaultOp(k) ==
    \A i \in 1..Len(Fields(k)) : FieldHasDefault(Fields(k)[i].obj)

\* the condition of StructureBase.default, `self.has_default()`: the function's
\* only parameter is cls, so looking up `self` raises NameError
DefaultCondition(k) == [error |-> "NameError", value |-> FALSE]

\* StructureBase.default
DefaultOp(k) ==
    LET c == DefaultCondition(k)
        m == Fields(k)
        values == [n \in FieldNames(k) |-> FieldDefault(Lookup(m, n))]
    IN IF c.error # "none" THEN [error |-> c.error, obj |-> <<>>]
       ELSE IF c.value THEN New(k, values)
       ELSE [error |-> "ValueError", obj |-> <<>>]

\* ------------------------------------------------------------ operations
\* keyword arguments naming fields of the schema
KwargsOf(k) == UNION {[S -> Values] : S \in SUBSET FieldNames(k)}

Prefixes(q) == {SubSeq(q, 1, j) : j \in 0..Len(q)}

\* byte strings handed to loads: what dumps returns for the type, cut anywhere
StreamsOf(k) ==
    UNION {Prefixes(DumpsOp(k, New(k, kw).obj).returned) : kw \in KwargsOf(k)}

\* cls(**kwargs)
Construct(k, kwargs) ==
    /\ pc = "idle"
    /\ LET r == New(k, kwargs) IN
       last' = Result("new", k, kwargs, r.error, <<>>, <<>>, <<>>, r.obj)
    /\ pc' = "called"
    /\ UNCHANGED <<cur, ns, decl, hooks, nins, fname, classes, maps, err>>

\* cls.dumps(obj) for obj = cls(**kwargs)
Dumps(k, kwargs) ==
    /\ pc = "idle"
    /\ New(k, kwargs).error = "none"
    /\ LET obj == New(k, kwargs).obj
           r == DumpsOp(k, obj)
       IN last' = Result("dumps", k, kwargs, r.error, r.log, r.out, r.returned, obj)
    /\ pc' = "called"
    /\ UNCHANGED <<cur, ns, decl, hooks, nins, fname, classes, maps, err>>

\* cls.loads(string)
Loads(k, stream) ==
    /\ pc = "idle"
    /\ LET r == LoadOp(k, stream) IN
       last' = Result("loads", k, stream, r.error, r.log, <<>>, <<>>, r.obj)
    /\ pc' = "called"
    /\ UNCHANGED <<cur, ns, decl, hooks, nins, fname, classes, maps, err>>

\* cls.has_default()
HasDefault(k) ==
    /\ pc = "idle"
    /\ last' = Result("has_default", k, <<>>, "none", <<>>, <<>>, <<>>,
                      <<HasDefaultOp(k)>>)
    /\ pc' = "called"
    /\ UNCHANGED <<cur, ns, decl, hooks, nins, fname, classes, maps, err>>

\* cls.default
Default(k) ==
    /\ pc = "idle"
    /\ LET r == DefaultOp(k) IN
       last' = Result("default", k, <<>>, r.error, <<>>, <<>>, <<>>, r.obj)
    /\ pc' = "called"
    /\ UNCHANGED <<cur, ns, decl, hooks, nins, fname, classes, maps, err>>

\* the caller is done with what the call returned
Return ==
    /\ pc = "called"
    /\ pc' = "idle"
    /\ last' = NoOp
    /\ UNCHANGED <<cur, ns, decl, hooks, nins, fname, classes, maps, err>>

Next ==
    \/ \E k \in 1..Len(classes) : Prepare(k)
    \/ \E n \in Names, o \in Objs : Insert(n, o)
    \/ EndBody
    \/ Abandon
    \/ pc = "idle" /\ \E k \in 1..Len(classes) : \E kw \in KwargsOf(k) : Construct(k, kw)
    \/ pc = "idle" /\ \E k \in 1..Len(classes) : \E kw \in KwargsOf(k) : Dumps(k, kw)
    \/ pc = "idle" /\ \E k \in 1..Len(classes) : \E s \in StreamsOf(k) : Loads(k, s)
    \/ pc = "idle" /\ \E k \in 1..Len(classes) : HasDefault(k)
    \/ pc = "idle" /\ \E k \in 1..Len(classes) : Default(k)
    \/ Return

Spec == Init /\ [][Next]_vars

\* ------------------------------------------------------------ steps
InsertStep(n, o) == decl' = Append(decl, [name |-> n, obj |-> o])

EndBodyStep == pc = "body" /\ Len(classes') = Len(classes) + 1

\* the map of the type an EndBody step creates
BuiltMap == maps'[classes'[Len(classes')].fref]

HookCalls(h, o) == {j \in 1..Len(h) : h[j].obj = o}

Bindings(d, o) == {j \in 1..Len(d) : d[j].obj = o}

\* ------------------------------------------------------------ C1
Kind(k) == classes[k].kind

\* instances of the type with every field assigned a value its codec writes
FullInstances(k) ==
    {x \in [FieldNames(k) -> Values] : DumpsOp(k, x).error = "none"}

\* C1: for a Structure schema and an instance x with every field explicitly
\* assigned, loads(dumps(x)) succeeds and returns an instance holding x's
\* value for every field (the codecs write what they read back)
RoundTrip ==
    (last.op = "loads" /\ Kind(last.cls) = "Structure") =>
        \A x \in FullInstances(last.cls) :
            DumpsOp(last.cls, x).returned = last.arg =>
                /\ last.error = "none"
                /\ \A n \in FieldNames(last.cls) :
                      n \in DOMAIN last.obj /\ last.obj[n] = x[n]

\* loads has returned the two different values that dumps wrote for two fields
RoundTripWitness ==
    /\ last.op = "loads" /\ Kind(last.cls) = "Structure" /\ last.error = "none"
    /\ Len(Fields(last.cls)) = 2
    /\ \E x \in FullInstances(last.cls) :
          /\ DumpsOp(last.cls, x).returned = last.arg
          /\ x = last.obj
          /\ x[Fields(last.cls)[1].name] # x[Fields(last.cls)[2].name]

\* ------------------------------------------------------------ C3
\* C3: the mutable dump calls a field's write_value with the instance's value
\* exactly when the instance has an explicit assignment for the field's name,
\* 0 and None included, and calls it without a value otherwise; what it
\* passes is the assigned value, never the field found on the class
PathSelection ==
    (last.op = "dumps" /\ Kind(last.cls) = "Structure") =>
        \A i \in 1..Len(last.log) :
            LET c == last.log[i] IN
            /\ c.mode = "value" <=> c.name \in DOMAIN last.obj
            /\ c.mode = "novalue" <=> c.name \notin DOMAIN last.obj
            /\ c.mode = "value" => c.value \in Values /\ c.value = last.obj[c.name]

\* a dump that wrote an assigned 0 by value and a missing field without a value
PathSelectionWitness ==
    /\ last.op = "dumps" /\ Kind(last.cls) = "Structure" /\ last.error = "none"
    /\ Len(last.log) = 2
    /\ last.log[1].mode = "value" /\ last.log[1].value = 0
    /\ last.log[2].mode = "novalue" /\ last.log[2].name \notin DOMAIN last.obj

\* ------------------------------------------------------------ C5
Supplied(kwargs, n) == IF n \in DOMAIN kwargs THEN kwargs[n] ELSE None

\* C5: a tuple instance has one slot per schema field, in schema order, holding
\* the supplied value or None; the tuple dump calls write_value with the slot's
\* content for every field it reaches, never without a value, while the mutable
\* dump of the same keywords calls it without a value for the unsupplied fields
TupleNoFallback ==
    LET k == last.cls
        m == Fields(k) IN
    /\ (last.op = "new" /\ Kind(k) = "StructureTuple") =>
          /\ last.error = "none"
          /\ Len(last.obj) = Len(m)
          /\ \A i \in 1..Len(m) :
                /\ last.obj[i].name = m[i].name
                /\ last.obj[i].obj = Supplied(last.arg, m[i].name)
    /\ (last.op = "dumps" /\ Kind(k) = "StructureTuple") =>
          /\ \A i \in 1..Len(last.log) :
                /\ last.log[i].mode = "value"
                /\ last.log[i].name = m[i].name
                /\ last.log[i].value = Supplied(last.arg, m[i].name)
          /\ LET d == StructureDump(m, StructureInit(last.arg), 1, <<>>, <<>>) IN
             \A i \in 1..Len(d.log) :
                d.log[i].mode = "novalue" <=> d.log[i].name \notin DOMAIN last.arg

\* a tuple dump that passed the None of an unsupplied slot to write_value, where
\* the mutable dump of the same keywords writes the field without a value
TupleNoFallbackWitness ==
    /\ last.op = "dumps" /\ Kind(last.cls) = "StructureTuple"
    /\ \E i \in 1..Len(last.log) :
          /\ last.log[i].name \notin DOMAIN last.arg
          /\ last.log[i].mode = "value" /\ last.log[i].value = None
          /\ LET d == StructureDump(Fields(last.cls), StructureInit(last.arg),
                                    1, <<>>, <<>>) IN
             Len(d.log) >= i /\ d.log[i].mode = "novalue"

\* ------------------------------------------------------------ C4
\* C4 as claimed: has_default() is true iff every field reports a default;
\* when it is, default returns a new instance with every field set to its
\* field's default; when it is not, default fails with ValueError and with
\* no other error
C4_Original ==
    LET k == last.cls
        m == Fields(k)
        all == \A i \in 1..Len(m) : FieldHasDefault(m[i].obj) IN
    /\ last.op = "has_default" => last.obj = <<all>>
    /\ (last.op = "default" /\ all) =>
          /\ last.error = "none"
          /\ \A i \in 1..Len(m) :
                last.obj[m[i].name] = FieldDefault(m[i].obj)
    /\ (last.op = "default" /\ ~all) => last.error = "ValueError"

\* ------------------------------------------------------------ C6
\* C6 as claimed: a dump or load either completes for every field in schema
\* order, or aborts at the first field whose codec fails, with the codec's
\* error, no codec of a later field called, no instance returned by load
\* and no bytes returned by dumps
C6_Original ==
    last.op \in {"dumps", "loads"} =>
        LET m == Fields(last.cls)
            n == Len(last.log) IN
        /\ n <= Len(m)
        /\ \A i \in 1..n : last.log[i].name = m[i].name
        /\ \A i \in 1..(n - 1) : last.log[i].error = "none"
        /\ IF last.error = "none"
           THEN n = Len(m) /\ \A i \in 1..n : last.log[i].error = "none"
           ELSE /\ n >= 1 /\ last.log[n].error = last.error
                /\ last.returned = <<>>
                /\ last.op = "loads" => last.obj = <<>>

\* ------------------------------------------------------------ C8
\* C8: a schema's field map, once built, is the same in every later state:
\* no instance-level call and no later class statement changes its keys, their
\* order or the field objects, and a new type's map is a fresh one, shared
\* with no existing type
SchemaImmutable ==
    [][/\ Len(classes') >= Len(classes)
       /\ \A k \in 1..Len(classes) :
             /\ classes'[k] = classes[k]
             /\ maps'[classes[k].fref] = maps[classes[k].fref]
       /\ EndBodyStep =>
             \A k \in 1..Len(classes) :
                classes'[Len(classes')].fref # classes[k].fref]_vars

\* a call has returned on a subtype with a field of its own whose base type
\* has a field too
SchemaImmutableWitness ==
    /\ pc = "called" /\ last.op \in {"new", "dumps", "loads", "default"}
    /\ classes[last.cls].parent > 2
    /\ Len(Fields(last.cls)) >= 1
    /\ Len(Fields(classes[last.cls].parent)) >= 1
    /\ Fields(last.cls) # Fields(classes[last.cls].parent)

\* ------------------------------------------------------------ C10
\* the bytes the fields of a map read: the sum of their sizes
RECURSIVE TotalSize(_, _)
TotalSize(m, i) == IF i > Len(m) THEN 0 ELSE FieldSize(m[i].obj) + TotalSize(m, i + 1)

\* C10 as claimed: load on a StructureTuple schema with at least one field,
\* from a stream every field decodes from, returns a tuple instance whose
\* slots hold the decoded values
C10_Original ==
    (/\ last.op = "loads" /\ Kind(last.cls) = "StructureTuple"
     /\ Len(Fields(last.cls)) >= 1
     /\ Len(last.arg) >= TotalSize(Fields(last.cls), 1)) =>
        /\ last.error = "none"
        /\ Len(last.obj) = Len(Fields(last.cls))

\* ------------------------------------------------------------ C7
\* what one insertion does: the object is stored under the name; an object
\* with the hook gets exactly one set_name call, with that name, within the
\* insertion; an object without it is left as it was; an error of the hook
\* comes out of the insertion and ends the class statement with no type built
InsertionNames ==
    \A n \in Names, o \in Objs : InsertStep(n, o) =>
        /\ HasKey(ns', n) /\ Lookup(ns', n) = o
        /\ IF HasSetName(o)
           THEN hooks' = Append(hooks, [obj |-> o, name |-> n])
           ELSE hooks' = hooks /\ fname' = fname
        /\ err' = SetNameError(o)
        /\ SetNameError(o) # "none" =>
              pc' = "raised" /\ classes' = classes /\ maps' = maps

\* set_name is called by insertions only
HooksByInsertion ==
    hooks' # hooks =>
        \/ \E n \in Names, o \in Objs : InsertStep(n, o)
        \/ hooks' = <<>>

\* when the type is built every field of its map has had exactly one
\* set_name call, and that call gave the name the field is keyed under
HookOncePerField ==
    EndBodyStep => \A i \in 1..Len(BuiltMap) :
        /\ Cardinality(HookCalls(hooks, BuiltMap[i].obj)) = 1
        /\ \A j \in HookCalls(hooks, BuiltMap[i].obj) :
              hooks[j].name = BuiltMap[i].name

\* when the type is built every field of its map has had one set_name call per
\* binding, all before the build, the latest giving the name it is keyed under
HookPerBinding ==
    EndBodyStep => \A i \in 1..Len(BuiltMap) :
        LET o == BuiltMap[i].obj
            calls == HookCalls(hooks, o)
        IN /\ calls # {}
           /\ Cardinality(calls) = Cardinality(Bindings(decl, o))
           /\ \A j \in calls : (\A j2 \in calls : j2 <= j) =>
                 hooks[j].name = BuiltMap[i].name

\* C7 as claimed: the naming hook fires exactly once per field, at the
\* insertion, with the name the field is keyed under in the field map, before
\* the schema is built; hook-less objects are stored unchanged; a failing hook
\* propagates its error and no schema becomes usable
C7_Original ==
    [][InsertionNames /\ HooksByInsertion /\ HookOncePerField]_vars

\* C7 as amended: the naming hook fires exactly once per insertion of an object
\* that has it, with that insertion's name; a field is keyed in the field map
\* under the name of its latest insertion, so a field bound once is named once
NamingHook ==
    [][InsertionNames /\ HooksByInsertion /\ HookPerBinding]_vars

\* a class body in which a field and a hook-less object have been inserted
NamingHookWitness ==
    /\ pc = "body"
    /\ \E i, j \in 1..Len(ns) :
          /\ ns[i].obj = PlainObj /\ fname[PlainObj] = NoName
          /\ ns[j].obj \in FieldObjs /\ fname[ns[j].obj] = ns[j].name
          /\ Cardinality(HookCalls(hooks, ns[j].obj)) = 1

\* ------------------------------------------------------------ C2
IsFieldEntry(e) == HasAttach(e.obj)

\* the declared fields: the namespace in capture order, hook-less members skipped
DeclaredFields(d) == SelectSeq(d, IsFieldEntry)

\* every field of the class body was bound once, and no name was bound twice
BoundOnce(d) ==
    \A i, j \in 1..Len(d) :
        (i # j /\ HasAttach(d[i].obj)) =>
            d[i].obj # d[j].obj /\ d[i].name # d[j].name

RECURSIVE Register(_, _, _, _)
Register(m, fs, fn, i) ==
    IF i > Len(fs) THEN m
    ELSE Register(ODSet(m, fn[fs[i].obj], fs[i].obj), fs, fn, i + 1)

\* the built map lists the declared fields, in their order
MapInDeclaredOrder == EndBodyStep => BuiltMap = DeclaredFields(ns)

\* the fields register in declared order, so that the built map lists them
\* in that order when each was bound once
MapInRegistrationOrder ==
    EndBodyStep =>
        /\ BuiltMap = Register(<<>>, DeclaredFields(ns), fname, 1)
        /\ BoundOnce(decl) => BuiltMap = DeclaredFields(ns)

\* a dump or load has called the codecs of the first fields of the map, one
\* call per field in map order, and of all the fields when it completed
CodecOrder ==
    last.op \in {"dumps", "loads"} =>
        LET m == Fields(last.cls) IN
        /\ Len(last.log) <= Len(m)
        /\ \A i \in 1..Len(last.log) :
              last.log[i].name = m[i].name /\ last.log[i].field = m[i].obj
        /\ last.error = "none" => Len(last.log) = Len(m)

\* C2 as claimed: the field map lists the fields in the order they were
\* declared, hook-less members skipped, and dump and load call the field
\* codecs once per field in that order
C2_Original == [][MapInDeclaredOrder]_vars /\ []CodecOrder

\* C2 as amended: the fields register in the order they were declared,
\* hook-less members skipped, so the map lists them in declaration order
\* when every field is bound once under one name; dump and load call the
\* field codecs once per field in the order of the map
WireOrder == [][MapInRegistrationOrder]_vars /\ []CodecOrder

\* a completed dump of a type declared as field, hook-less object, field
WireOrderWitness ==
    /\ last.op = "dumps" /\ last.error = "none" /\ Len(last.log) = 2
    /\ LET a == classes[last.cls].attrs IN
       /\ Len(a) = 3
       /\ HasAttach(a[1].obj) /\ a[2].obj = PlainObj /\ HasAttach(a[3].obj)
       /\ Keys(Fields(last.cls)) = <<a[1].name, a[3].name>>

====
